---- MODULE Spec2Model ----
(***************************************************************************)
(* The HR attendance table (AttendanceTable.tsx): status resolution of the *)
(* fetched records, the client-side filter / sort / sliding window, and    *)
(* the view state that drives them.                                        *)
(***************************************************************************)
EXTENDS Integers, Sequences, FiniteSets, TLC

VARIABLES
    attendanceResponse,   \* data of useEmployeeAttendanceWithAbsents
    allAttendanceData,    \* useState: processed records of the whole range
    displayedData,        \* useState: current window of data
    currentWindowIndex,   \* useState: index of the sliding window
    statusFilter,         \* useState: 'all' or a status
    sortOrder,            \* useState: 'asc' | 'desc'
    dirty,                \* effect dependencies changed by the last commit
    selectedRecords,      \* useState: Set of row indexes of the window
    bulkStatus,           \* useState: status a bulk update assigns
    showBulkActions,      \* useState: bulk mode (checkboxes shown)
    employeeId,           \* prop: the employee of the table
    updateTrigger,        \* prop: refresh trigger of the parent
    requests,             \* update requests the last bulk update handed to mutate
    batch,                \* the bulk update: idle, pending, failed (alert open)
    outstanding,          \* requests of the pending batch not yet answered
    refetchRequested,     \* refetchAttendance() called, response not yet delivered
    showSubmitModal,      \* MyTaskReports useState: the submission form is open
    submitTasks,          \* MyTaskReports useState: draft task list of the form
    submitDate,           \* MyTaskReports useState: date of the form
    editingReport,        \* MyTaskReports useState: id of the report in edit mode
    editTasks,            \* MyTaskReports useState: draft task list of the edit
    taskCall,             \* submitTaskReportMutation.mutateAsync call in flight
    toast,                \* variant of the last toast
    headerProps,          \* Header props: the six inputs of the two buttons
    called,               \* the handler prop the last click of a button called
    reportsPage,          \* MyTaskReports useState currentPage: page of the report list
    dateRange,            \* MyTaskReports useState: startDate and endDate of the list
    taskReportsData       \* data of useMyTaskReports for the current page and range

viewVars == <<attendanceResponse, allAttendanceData, displayedData,
              currentWindowIndex, statusFilter, sortOrder, dirty>>

bulkVars == <<selectedRecords, bulkStatus, showBulkActions, employeeId,
              requests, batch, outstanding>>

fetchVars == <<updateTrigger, refetchRequested>>

taskVars == <<showSubmitModal, submitTasks, submitDate, editingReport, editTasks,
              taskCall, toast>>

headerVars == <<headerProps, called>>

tableVars == <<viewVars, bulkVars, fetchVars>>

listVars == <<reportsPage, dateRange, taskReportsData>>

vars == <<viewVars, bulkVars, fetchVars, taskVars, headerVars, listVars>>

----------------------------------------------------------------------------
(* Bounds of the model *)

\* longest record list of a modelled response
MaxRecords == 15
\* number of generated response families
MaxSeed == 1
\* generated records fall on the days 1 .. MaxDate + 1
MaxDate == 5
\* longest exhaustively enumerated record list
MaxLen == 4
\* largest window index / page number tried
MaxWindow == 3
\* most pages of the long record lists the pager is rendered for
MaxPages == 6
\* rows of the window whose checkbox is ticked one at a time
MaxTick == 2
\* largest value of the refresh trigger
MaxTrigger == 1
\* longest draft task list
MaxTasks == 2
\* most pages of task reports the backend announces
MaxReportPages == 3

(* Program constants *)

recordsPerPage == 7

----------------------------------------------------------------------------
(* Values *)

\* a missing (undefined / null) field
Undefined == "undefined"

\* JavaScript null
Null == "null"

\* record.flags missing altogether
NoFlags == {Undefined}

FlagNames == {"isLeave", "isHoliday", "isWeekend"}

\* statuses the backend assigns
RawStatuses == {Undefined, "present", "half-day", "absent", "leave", "holiday"}

\* the options of the status filter
FilterOptions == {"all", "present", "absent", "half-day", "weekend", "holiday", "leave"}

(* Coordinates: JavaScript values of location.latitude and location.longitude *)

Missing == [type |-> "undefined", nan |-> FALSE, value |-> 0, text |-> ""]
Number(value) == [type |-> "number", nan |-> FALSE, value |-> value, text |-> ""]
NaN == [type |-> "number", nan |-> TRUE, value |-> 0, text |-> ""]
String(text) == [type |-> "string", nan |-> FALSE, value |-> 0, text |-> text]

Coordinates ==
    {Missing, NaN, Number(0), Number(28), Number(-77),
     String(""), String("abc"), String("0"), String("28")}

\* no location object: record.location undefined or null
NoLocation == [present |-> FALSE, latitude |-> Missing, longitude |-> Missing]

\* record.location: missing, or an object of two coordinates
Locations == {NoLocation} \cup [present : {TRUE}, latitude : Coordinates, longitude : Coordinates]

\* a record as the backend sends it, without location
RawRecord(id, date, checkIn, status, flags, holidayTitle) ==
    [id |-> id, date |-> date, checkIn |-> checkIn, status |-> status,
     flags |-> flags, holidayTitle |-> holidayTitle, location |-> NoLocation]

WithLocation(record, location) == [record EXCEPT !.location = location]

\* the value as a condition: undefined, 0, NaN and "" are falsy
truthy(c) ==
    CASE c.type = "undefined" -> FALSE
      [] c.type = "number" -> ~c.nan /\ c.value # 0
      [] c.type = "string" -> c.text # ""

\* parseFloat of a number or of one of the strings above
parseFloat(c) ==
    CASE c.type = "number" -> c
      [] c.type = "string" /\ c.text = "0" -> Number(0)
      [] c.type = "string" /\ c.text = "28" -> Number(28)
      [] OTHER -> NaN

\* isNaN of a number
isNaN(c) == c.nan

\* every shape of a raw record of one day
AllRawRecords ==
    { RawRecord(1, 0, c, s, f, t) :
        c \in {Undefined, "09:12"},
        s \in RawStatuses,
        f \in (SUBSET FlagNames) \cup {NoFlags},
        t \in {Undefined, "Diwali"} }

\* record.flags?.<name>
Flag(record, name) == name \in record.flags

\* a date is the instant its ISO string denotes, in minutes since the epoch

\* the string the backend sends for a day kept as midnight UTC
\* ("2024-03-01T00:00:00.000Z")
utcMidnight(day) == day * 1440

\* the string the backend sends for a day kept as midnight IST
\* ("2024-02-29T18:30:00.000Z" for 1 March 2024)
istMidnight(day) == day * 1440 - 330

\* new Date(date).getTime(), in milliseconds
getTime(date) == date * 60000

----------------------------------------------------------------------------
(* StatusResolver: the map callback of processedRecords *)

\* a resolver that lets the flags override the status of a checked-in record
finalStatus_IgnoreCheckIn(record) ==
    IF Flag(record, "isLeave") \/ record.status = "leave" THEN "leave"
    ELSE IF Flag(record, "isHoliday") THEN "holiday"
    ELSE IF Flag(record, "isWeekend") THEN "weekend"
    ELSE IF record.status # Undefined THEN record.status ELSE "absent"

\* a resolver with weekend tested before holiday
finalStatus_WeekendFirst(record) ==
    LET base == IF record.status # Undefined THEN record.status ELSE "absent"
    IN  IF record.checkIn = Undefined
        THEN IF Flag(record, "isLeave") \/ record.status = "leave" THEN "leave"
             ELSE IF Flag(record, "isWeekend") THEN "weekend"
             ELSE IF Flag(record, "isHoliday") THEN "holiday"
             ELSE base
        ELSE base

\* a resolver whose fall-through drops the backend status
finalStatus_DropStatus(record) ==
    IF record.checkIn = Undefined
    THEN IF Flag(record, "isLeave") \/ record.status = "leave" THEN "leave"
         ELSE IF Flag(record, "isHoliday") THEN "holiday"
         ELSE IF Flag(record, "isWeekend") THEN "weekend"
         ELSE "absent"
    ELSE IF record.status # Undefined THEN record.status ELSE "absent"

\* a resolver that tests only the isLeave flag
finalStatus_FlagOnly(record) ==
    LET base == IF record.status # Undefined THEN record.status ELSE "absent"
    IN  IF record.checkIn = Undefined
        THEN IF Flag(record, "isLeave") THEN "leave"
             ELSE IF Flag(record, "isHoliday") THEN "holiday"
             ELSE IF Flag(record, "isWeekend") THEN "weekend"
             ELSE base
        ELSE base

finalStatus(record) ==
    LET base == IF record.status # Undefined THEN record.status ELSE "absent"
    IN  IF record.checkIn = Undefined
        THEN IF Flag(record, "isLeave") \/ record.status = "leave" THEN "leave"
             ELSE IF Flag(record, "isHoliday") THEN "holiday"
             ELSE IF Flag(record, "isWeekend") THEN "weekend"
             ELSE base
        ELSE base

\* a title fallback keyed on the resolved status instead of the flag
holidayTitle_ByStatus(record) ==
    IF record.holidayTitle # Undefined THEN record.holidayTitle
    ELSE IF finalStatus(record) = "holiday" THEN "Holiday"
    ELSE Undefined

holidayTitle(record) ==
    IF record.holidayTitle # Undefined THEN record.holidayTitle
    ELSE IF Flag(record, "isHoliday") THEN "Holiday"
    ELSE Undefined

\* location: record.location && record.location.latitude &&
\* record.location.longitude ? { parseFloat, parseFloat } : null
processedLocation(record) ==
    IF /\ record.location.present
       /\ truthy(record.location.latitude)
       /\ truthy(record.location.longitude)
    THEN [present |-> TRUE,
          latitude |-> parseFloat(record.location.latitude),
          longitude |-> parseFloat(record.location.longitude)]
    ELSE NoLocation

ProcessRecord(record) ==
    [id |-> record.id,
     date |-> record.date,
     status |-> finalStatus(record),
     checkIn |-> record.checkIn,
     flags |-> IF record.flags = NoFlags THEN {} ELSE record.flags,
     holidayTitle |-> holidayTitle(record),
     location |-> processedLocation(record)]

\* hasValidLocation(record) of a processed record
hasValidLocation(record) ==
    /\ record.location.present
    /\ truthy(record.location.latitude)
    /\ truthy(record.location.longitude)
    /\ ~isNaN(record.location.latitude)
    /\ ~isNaN(record.location.longitude)

processedRecords(allRecords) ==
    [i \in 1..Len(allRecords) |-> ProcessRecord(allRecords[i])]

----------------------------------------------------------------------------
(* WindowedFilterSort: updateCurrentWindow *)

\* Array.prototype.filter with record => record.status === filter
RECURSIVE filterRecords(_, _)
filterRecords(data, filter) ==
    IF data = <<>> THEN <<>>
    ELSE LET rest == filterRecords(Tail(data), filter)
         IN  IF Head(data).status = filter THEN <<Head(data)>> \o rest ELSE rest

\* a status filter that keeps everything
filterByStatus_KeepAll(data, filter) == data

\* let filteredData = [...data]; if (filter !== 'all') filteredData = filteredData.filter(...)
filterByStatus(data, filter) ==
    IF filter # "all" THEN filterRecords(data, filter) ELSE data

\* a comparator with the two orders exchanged
compareDates_Swapped(a, b, order) ==
    IF order = "desc" THEN getTime(a.date) - getTime(b.date)
    ELSE getTime(b.date) - getTime(a.date)

\* the comparator handed to sort
compareDates(a, b, order) ==
    IF order = "desc" THEN getTime(b.date) - getTime(a.date)
    ELSE getTime(a.date) - getTime(b.date)

\* a position that puts a record before the earlier records it ties with
sortPosition_TiesReversed(filteredData, i, order) ==
    Cardinality({ j \in 1..Len(filteredData) :
        \/ compareDates(filteredData[j], filteredData[i], order) < 0
        \/ compareDates(filteredData[j], filteredData[i], order) = 0 /\ j > i }) + 1

\* the place the stable sort gives the i-th record: behind every record that
\* compares smaller, and behind the earlier records that compare equal
sortPosition(filteredData, i, order) ==
    Cardinality({ j \in 1..Len(filteredData) :
        \/ compareDates(filteredData[j], filteredData[i], order) < 0
        \/ compareDates(filteredData[j], filteredData[i], order) = 0 /\ j < i }) + 1

\* Array.prototype.sort with the date comparator (a stable sort)
sortRecords(filteredData, order) ==
    [p \in 1..Len(filteredData) |->
        filteredData[CHOOSE i \in 1..Len(filteredData) :
                        sortPosition(filteredData, i, order) = p]]

Min(a, b) == IF a <= b THEN a ELSE b

\* a slice that ends one element early
slice_ShortByOne(array, start, end) ==
    SubSeq(array, Min(start, Len(array)) + 1, Min(end, Len(array)) - 1)

\* Array.prototype.slice(start, end) for 0 <= start <= end
slice(array, start, end) ==
    SubSeq(array, Min(start, Len(array)) + 1, Min(end, Len(array)))

sortedRecords(data, filter, order) ==
    sortRecords(filterByStatus(data, filter), order)

\* a window that starts one record late
windowData_StartOffByOne(data, windowIndex, filter, order) ==
    LET startIndex == windowIndex * recordsPerPage + 1
        endIndex == startIndex + recordsPerPage
    IN  slice(sortedRecords(data, filter, order), startIndex, endIndex)

\* the windowData of updateCurrentWindow(data, windowIndex, filter, order)
windowData(data, windowIndex, filter, order) ==
    LET startIndex == windowIndex * recordsPerPage
        endIndex == startIndex + recordsPerPage
    IN  slice(sortedRecords(data, filter, order), startIndex, endIndex)

getFilteredDataLength == Len(filterByStatus(allAttendanceData, statusFilter))

\* a page count that rounds down
ceil_Floor(n, d) == n \div d

\* Math.ceil(n / d) for n >= 0, d > 0
ceil(n, d) == IF n % d = 0 THEN n \div d ELSE n \div d + 1

totalPages == ceil(getFilteredDataLength, recordsPerPage)

currentPage == currentWindowIndex + 1

(* The pagination controls as rendered *)

\* {totalPages > 1 && (...)}
paginationRendered == totalPages > 1

\* what the render returns in place of a page button: null
NoButton == 0

\* a row of page buttons that does not stop at the last page
pageNum_NoEndCheck(i) ==
    IF totalPages <= 5
    THEN i + 1
    ELSE LET start == IF currentPage - 2 >= 1 THEN currentPage - 2 ELSE 1
         IN  start + i

\* the page of the i-th page button (i from 0), NoButton when none is rendered
pageNum(i) ==
    IF totalPages <= 5
    THEN i + 1
    ELSE LET start == IF currentPage - 2 >= 1 THEN currentPage - 2 ELSE 1
             end == Min(totalPages, start + 4)
         IN  IF start + i > end THEN NoButton ELSE start + i

\* the pages of the rendered page buttons
pageButtons ==
    IF paginationRendered
    THEN { pageNum(i) : i \in 0..(Min(totalPages, 5) - 1) } \ {NoButton}
    ELSE {}

\* disabled={currentPage === 1} of Previous, disabled={currentPage === totalPages} of Next
previousDisabled == currentPage = 1
nextDisabled == currentPage = totalPages

\* the pages the rendered, enabled controls hand to handlePageChange
offeredPages ==
    IF paginationRendered
    THEN pageButtons
             \cup (IF previousDisabled THEN {} ELSE {currentPage - 1})
             \cup (IF nextDisabled THEN {} ELSE {currentPage + 1})
    ELSE {}

----------------------------------------------------------------------------
(* Responses of the attendance query *)

\* shapes of raw records a generated response cycles through
RawShapes ==
    << [checkIn |-> "09:12", status |-> "present", flags |-> {}, holidayTitle |-> Undefined],
       [checkIn |-> Undefined, status |-> "absent", flags |-> {}, holidayTitle |-> Undefined],
       [checkIn |-> "09:12", status |-> "present", flags |-> {"isHoliday"}, holidayTitle |-> Undefined],
       [checkIn |-> Undefined, status |-> Undefined, flags |-> {"isWeekend"}, holidayTitle |-> Undefined],
       [checkIn |-> "09:12", status |-> "half-day", flags |-> NoFlags, holidayTitle |-> Undefined],
       [checkIn |-> Undefined, status |-> "leave", flags |-> {"isHoliday"}, holidayTitle |-> "Diwali"],
       [checkIn |-> "09:12", status |-> "present", flags |-> {"isWeekend"}, holidayTitle |-> Undefined],
       [checkIn |-> Undefined, status |-> Undefined, flags |-> {"isHoliday"}, holidayTitle |-> Undefined] >>

\* the i-th record of the generated response of family k; a record the backend
\* synthesised for a day without attendance has no _id (0); the days of an even
\* family are kept as midnight UTC, those of an odd family as midnight IST
GenRecord(i, k) ==
    LET shape == RawShapes[((i + 3 * k) % Len(RawShapes)) + 1]
        day == ((i * i + k) % (MaxDate + 1)) + 1
    IN  RawRecord(IF shape.checkIn = Undefined /\ shape.status # "leave" THEN 0 ELSE i,
                  IF k % 2 = 0 THEN utcMidnight(day) ELSE istMidnight(day),
                  shape.checkIn, shape.status, shape.flags, shape.holidayTitle)

Dataset(n, k) == [i \in 1..n |-> GenRecord(i, k)]

Datasets == { Dataset(n, k) : n \in 0..MaxRecords, k \in 0..MaxSeed }

\* every list of at most MaxLen records over two dates and two statuses
SmallLists ==
    LET Kinds == [date : {0, 1}, status : {"present", "absent"}]
        ListOf(t) == [i \in DOMAIN t |->
                        RawRecord(i, utcMidnight(t[i].date),
                                  IF t[i].status = "present" THEN "09:12" ELSE Undefined,
                                  t[i].status, {}, Undefined)]
    IN  UNION { { ListOf(t) : t \in [1..n -> Kinds] } : n \in 0..MaxLen }

Success(records) == [success |-> TRUE, data |-> TRUE, records |-> records]

\* no response yet (loading), or a response that is not a success
NoResponse == [success |-> FALSE, data |-> FALSE, records |-> <<>>]

Responses == { Success(d) : d \in Datasets } \cup {NoResponse}

----------------------------------------------------------------------------
(* Header: the Check In and Check Out buttons *)

\* HeaderProps, the inputs of the two buttons
HeaderInputs ==
    [isCheckedIn : BOOLEAN, dailyCycleComplete : BOOLEAN, checkInLoading : BOOLEAN,
     checkOutLoading : BOOLEAN, locationLoading : BOOLEAN, wfhRequestPending : BOOLEAN]

\* a Check In button that ignores a pending WFH request
checkInDisabled_NoWfh(props) ==
    \/ props.isCheckedIn
    \/ props.checkInLoading
    \/ props.locationLoading
    \/ props.dailyCycleComplete

\* disabled of the Check In button
checkInDisabled(props) ==
    \/ props.isCheckedIn
    \/ props.checkInLoading
    \/ props.locationLoading
    \/ props.dailyCycleComplete
    \/ props.wfhRequestPending

\* disabled of the Check Out button
checkOutDisabled(props) ==
    \/ ~props.isCheckedIn
    \/ props.checkOutLoading
    \/ props.dailyCycleComplete

\* the header of an employee who has not checked in, nothing clicked
HeaderInit ==
    /\ headerProps = [isCheckedIn |-> FALSE, dailyCycleComplete |-> FALSE,
                      checkInLoading |-> FALSE, checkOutLoading |-> FALSE,
                      locationLoading |-> FALSE, wfhRequestPending |-> FALSE]
    /\ called = "none"

\* the parent renders the header with other props
RenderHeader(props) ==
    /\ props # headerProps
    /\ headerProps' = props
    /\ UNCHANGED <<called, tableVars, taskVars, listVars>>

\* onClick of Check In; a disabled button takes no click
ClickCheckIn ==
    /\ ~checkInDisabled(headerProps)
    /\ called' = "handleCheckIn"
    /\ UNCHANGED <<headerProps, tableVars, taskVars, listVars>>

\* onClick of Check Out; a disabled button takes no click
ClickCheckOut ==
    /\ ~checkOutDisabled(headerProps)
    /\ called' = "handleCheckOut"
    /\ UNCHANGED <<headerProps, tableVars, taskVars, listVars>>

NextHeader ==
    \/ \E props \in HeaderInputs : RenderHeader(props)
    \/ ClickCheckIn
    \/ ClickCheckOut

----------------------------------------------------------------------------
(* MyTaskReports: the list of reports, its pages and its date range *)

\* const recordsPerPage = 10 of MyTaskReports
reportsPerPage == 10

\* no data yet (loading)
NoReportsData == [loaded |-> FALSE, pagination |-> FALSE, total |-> 0, totalPages |-> 0,
                  reports |-> 0]

\* what the query may deliver: with or without pagination, its total and
\* totalPages, and the number of reports of the page
ReportsData ==
    {NoReportsData} \cup
    [loaded : {TRUE}, pagination : BOOLEAN, total : {0, reportsPerPage * MaxReportPages - 5},
     totalPages : {0, MaxReportPages}, reports : {0, reportsPerPage}]

\* taskReports.length
taskReportsLength == IF taskReportsData.loaded THEN taskReportsData.reports ELSE 0

\* taskReportsData?.pagination?.total || taskReports.length
reportsTotalRecords ==
    IF taskReportsData.loaded /\ taskReportsData.pagination /\ taskReportsData.total # 0
    THEN taskReportsData.total
    ELSE taskReportsLength

\* taskReportsData?.pagination?.totalPages || Math.ceil(totalRecords / recordsPerPage)
reportsTotalPages ==
    IF taskReportsData.loaded /\ taskReportsData.pagination /\ taskReportsData.totalPages # 0
    THEN taskReportsData.totalPages
    ELSE ceil(reportsTotalRecords, reportsPerPage)

\* values of the two date inputs; '' is the cleared input
RangeDates == {"", "2024-03-01"}

ListInit ==
    /\ reportsPage = 1
    /\ dateRange = [startDate |-> "", endDate |-> ""]
    /\ taskReportsData = NoReportsData

\* the query delivers data
ReceiveReports(data) ==
    /\ data # taskReportsData
    /\ taskReportsData' = data
    /\ UNCHANGED <<reportsPage, dateRange, tableVars, taskVars, headerVars>>

\* a page change without the lower bound
reportsPageChange_NoLowerBound(newPage) ==
    /\ reportsPage' = IF newPage <= reportsTotalPages THEN newPage ELSE reportsPage
    /\ UNCHANGED <<dateRange, taskReportsData, tableVars, taskVars, headerVars>>

\* handlePageChange of MyTaskReports
reportsPageChange(newPage) ==
    /\ reportsPage' = IF newPage >= 1 /\ newPage <= reportsTotalPages THEN newPage
                      ELSE reportsPage
    /\ UNCHANGED <<dateRange, taskReportsData, tableVars, taskVars, headerVars>>

handleDateRangeChange(field, value) ==
    /\ value # dateRange[field]
    /\ dateRange' = [dateRange EXCEPT ![field] = value]
    /\ reportsPage' = 1
    /\ UNCHANGED <<taskReportsData, tableVars, taskVars, headerVars>>

\* onClick of the clear button, rendered when a bound is set
ClearDateRange ==
    /\ dateRange.startDate # "" \/ dateRange.endDate # ""
    /\ dateRange' = [startDate |-> "", endDate |-> ""]
    /\ reportsPage' = 1
    /\ UNCHANGED <<taskReportsData, tableVars, taskVars, headerVars>>

NextReports ==
    \/ \E data \in ReportsData : ReceiveReports(data)
    \/ \E newPage \in 0..(MaxReportPages + 1) : reportsPageChange(newPage)
    \/ \E field \in {"startDate", "endDate"}, value \in RangeDates :
           handleDateRangeChange(field, value)
    \/ ClearDateRange

----------------------------------------------------------------------------
(* MyTaskReports: submitting and editing a task report *)

\* '' (a text is the sequence of its characters)
Blank == <<>>

\* what is typed into a task field
Texts == {Blank, <<" ">>, <<"a">>, <<" ", "b", " ">>}

RECURSIVE trimStart(_)
trimStart(text) ==
    IF text # <<>> /\ Head(text) = " " THEN trimStart(Tail(text)) ELSE text

RECURSIVE trimEnd(_)
trimEnd(text) ==
    IF text # <<>> /\ text[Len(text)] = " "
    THEN trimEnd(SubSeq(text, 1, Len(text) - 1))
    ELSE text

\* String.prototype.trim
trim(text) == trimEnd(trimStart(text))

\* a task list that is filtered but not trimmed
nonEmptyTasks_NoTrim(tasks) == SelectSeq(tasks, LAMBDA t : t # Blank)

\* tasks.map(t => t.trim()).filter(t => t !== '')
nonEmptyTasks(tasks) ==
    SelectSeq([i \in 1..Len(tasks) |-> trim(tasks[i])], LAMBDA t : t # Blank)

\* an ISO date string: its first ten characters and the rest
Iso(day) == [day |-> day, time |-> "T00:00:00.000Z"]

\* a report without date ('' or undefined)
NoDate == [day |-> "", time |-> ""]

\* dateString.slice(0, 10)
slice10(iso) == iso.day

Days == {"2024-03-01", "2024-03-02"}

\* new Date().toISOString().slice(0, 10)
Today == "2024-03-02"

\* the reports of the page
Reports ==
    { [id |-> "r1", tasks |-> << <<"a">>, <<" ", "b", " ">> >>,
       date |-> Iso("2024-03-01"), createdAt |-> Iso("2024-03-02")],
      [id |-> "r2", tasks |-> << <<"a">> >>,
       date |-> NoDate, createdAt |-> Iso("2024-03-02")] }

\* no mutateAsync call in flight
NoCall == [kind |-> "none", tasks |-> <<>>, date |-> ""]

TaskInit ==
    /\ showSubmitModal = FALSE
    /\ submitTasks = <<Blank>>
    /\ submitDate = Today
    /\ editingReport = Null
    /\ editTasks = <<>>
    /\ taskCall = NoCall
    /\ toast = "none"

handleOpenSubmitModal ==
    /\ ~showSubmitModal
    /\ submitTasks' = <<Blank>>
    /\ submitDate' = Today
    /\ showSubmitModal' = TRUE
    /\ UNCHANGED <<editingReport, editTasks, taskCall, toast, tableVars, headerVars, listVars>>

\* onClick of the close button and of Cancel
CloseSubmitModal ==
    /\ showSubmitModal
    /\ showSubmitModal' = FALSE
    /\ UNCHANGED <<submitTasks, submitDate, editingReport, editTasks, taskCall, toast,
                   tableVars, headerVars, listVars>>

\* onChange of the date field of the form
SetSubmitDate(date) ==
    /\ showSubmitModal
    /\ date # submitDate
    /\ submitDate' = date
    /\ UNCHANGED <<showSubmitModal, submitTasks, editingReport, editTasks, taskCall,
                   toast, tableVars, headerVars, listVars>>

handleTaskChange(index, value) ==
    /\ showSubmitModal
    /\ index < Len(submitTasks)
    /\ submitTasks' = [submitTasks EXCEPT ![index + 1] = value]
    /\ UNCHANGED <<showSubmitModal, submitDate, editingReport, editTasks, taskCall,
                   toast, tableVars, headerVars, listVars>>

handleAddTask ==
    /\ showSubmitModal
    /\ Len(submitTasks) < MaxTasks
    /\ submitTasks' = Append(submitTasks, Blank)
    /\ UNCHANGED <<showSubmitModal, submitDate, editingReport, editTasks, taskCall,
                   toast, tableVars, headerVars, listVars>>

\* tasks.filter((_, i) => i !== index)
removeAt(tasks, index) ==
    [i \in 1..(Len(tasks) - 1) |-> IF i <= index THEN tasks[i] ELSE tasks[i + 1]]

\* a removal that also removes the last entry
handleRemoveTask_Always(index) ==
    /\ showSubmitModal
    /\ index < Len(submitTasks)
    /\ submitTasks' = removeAt(submitTasks, index)
    /\ UNCHANGED <<showSubmitModal, submitDate, editingReport, editTasks, taskCall,
                   toast, tableVars, headerVars, listVars>>

handleRemoveTask(index) ==
    /\ showSubmitModal
    /\ index < Len(submitTasks)
    /\ submitTasks' = IF Len(submitTasks) > 1 THEN removeAt(submitTasks, index)
                      ELSE submitTasks
    /\ UNCHANGED <<showSubmitModal, submitDate, editingReport, editTasks, taskCall,
                   toast, tableVars, headerVars, listVars>>

\* up to the await of mutateAsync
handleSubmitTasks ==
    /\ showSubmitModal
    /\ IF Len(nonEmptyTasks(submitTasks)) = 0
       THEN /\ toast' = "warning"
            /\ UNCHANGED taskCall
       ELSE /\ taskCall' = [kind |-> "submit", tasks |-> nonEmptyTasks(submitTasks),
                            date |-> submitDate]
            /\ UNCHANGED toast
    /\ UNCHANGED <<showSubmitModal, submitTasks, submitDate, editingReport, editTasks,
                   tableVars, headerVars, listVars>>

handleEditReport(report) ==
    /\ ~showSubmitModal
    /\ editingReport' = report.id
    /\ editTasks' = report.tasks
    /\ UNCHANGED <<showSubmitModal, submitTasks, submitDate, taskCall, toast, tableVars, headerVars, listVars>>

handleEditTaskChange(index, value) ==
    /\ ~showSubmitModal
    /\ editingReport # Null
    /\ index < Len(editTasks)
    /\ editTasks' = [editTasks EXCEPT ![index + 1] = value]
    /\ UNCHANGED <<showSubmitModal, submitTasks, submitDate, editingReport, taskCall,
                   toast, tableVars, headerVars, listVars>>

handleAddEditTask ==
    /\ ~showSubmitModal
    /\ editingReport # Null
    /\ Len(editTasks) < MaxTasks
    /\ editTasks' = Append(editTasks, Blank)
    /\ UNCHANGED <<showSubmitModal, submitTasks, submitDate, editingReport, taskCall,
                   toast, tableVars, headerVars, listVars>>

handleRemoveEditTask(index) ==
    /\ ~showSubmitModal
    /\ editingReport # Null
    /\ index < Len(editTasks)
    /\ editTasks' = IF Len(editTasks) > 1 THEN removeAt(editTasks, index) ELSE editTasks
    /\ UNCHANGED <<showSubmitModal, submitTasks, submitDate, editingReport, taskCall,
                   toast, tableVars, headerVars, listVars>>

\* up to the await of mutateAsync; Save is rendered for the report in edit mode
handleSaveEdit(report) ==
    /\ ~showSubmitModal
    /\ editingReport = report.id
    /\ IF Len(nonEmptyTasks(editTasks)) = 0
       THEN /\ toast' = "warning"
            /\ UNCHANGED taskCall
       ELSE /\ taskCall' = [kind |-> "edit", tasks |-> nonEmptyTasks(editTasks),
                            date |-> IF report.date # NoDate THEN slice10(report.date)
                                     ELSE slice10(report.createdAt)]
            /\ UNCHANGED toast
    /\ UNCHANGED <<showSubmitModal, submitTasks, submitDate, editingReport, editTasks,
                   tableVars, headerVars, listVars>>

handleCancelEdit ==
    /\ ~showSubmitModal
    /\ editingReport # Null
    /\ editingReport' = Null
    /\ editTasks' = <<>>
    /\ UNCHANGED <<showSubmitModal, submitTasks, submitDate, taskCall, toast, tableVars, headerVars, listVars>>

\* a handler that closes the form and leaves edit mode whatever the outcome
TaskCallSettles_CloseAlways(ok) ==
    /\ taskCall.kind # "none"
    /\ taskCall' = NoCall
    /\ toast' = IF ok THEN "success" ELSE "error"
    /\ showSubmitModal' = IF taskCall.kind = "submit" THEN FALSE ELSE showSubmitModal
    /\ submitTasks' = IF taskCall.kind = "submit" THEN <<Blank>> ELSE submitTasks
    /\ editingReport' = IF taskCall.kind = "edit" THEN Null ELSE editingReport
    /\ UNCHANGED <<submitDate, editTasks, tableVars, headerVars, listVars>>

\* mutateAsync resolves (ok) or rejects: the rest of handleSubmitTasks or of
\* handleSaveEdit
TaskCallSettles(ok) ==
    /\ taskCall.kind # "none"
    /\ taskCall' = NoCall
    /\ toast' = IF ok THEN "success" ELSE "error"
    /\ showSubmitModal' = IF ok /\ taskCall.kind = "submit" THEN FALSE ELSE showSubmitModal
    /\ submitTasks' = IF ok /\ taskCall.kind = "submit" THEN <<Blank>> ELSE submitTasks
    /\ editingReport' = IF ok /\ taskCall.kind = "edit" THEN Null ELSE editingReport
    /\ UNCHANGED <<submitDate, editTasks, tableVars, headerVars, listVars>>

\* no call in flight: the page takes the next event after the answer
NoTaskCall == taskCall.kind = "none"

NextTasks ==
    \/ \E ok \in BOOLEAN : TaskCallSettles(ok)
    \/ NoTaskCall /\ handleOpenSubmitModal
    \/ NoTaskCall /\ CloseSubmitModal
    \/ NoTaskCall /\ \E date \in Days : SetSubmitDate(date)
    \/ NoTaskCall /\ \E index \in 0..(MaxTasks - 1), value \in Texts :
                         handleTaskChange(index, value)
    \/ NoTaskCall /\ handleAddTask
    \/ NoTaskCall /\ \E index \in 0..(MaxTasks - 1) : handleRemoveTask(index)
    \/ NoTaskCall /\ handleSubmitTasks
    \/ NoTaskCall /\ \E report \in Reports : handleEditReport(report)
    \/ NoTaskCall /\ \E index \in 0..(MaxTasks - 1), value \in Texts :
                         handleEditTaskChange(index, value)
    \/ NoTaskCall /\ handleAddEditTask
    \/ NoTaskCall /\ \E index \in 0..(MaxTasks - 1) : handleRemoveEditTask(index)
    \/ NoTaskCall /\ \E report \in Reports : handleSaveEdit(report)
    \/ NoTaskCall /\ handleCancelEdit

----------------------------------------------------------------------------
(* The view *)

ProcessDeps == {"attendanceResponse", "statusFilter", "sortOrder"}
TriggerDeps == {"updateTrigger"}
\* a filters effect that does not list sortOrder
FiltersDeps_NoSort == {"statusFilter", "allAttendanceData"}
FiltersDeps == {"statusFilter", "sortOrder", "allAttendanceData"}

\* useState initial values of the bulk selection, no batch sent
BulkInit ==
    /\ selectedRecords = {}
    /\ bulkStatus = "present"
    /\ showBulkActions = FALSE
    /\ employeeId = "E1"
    /\ requests = <<>>
    /\ batch = "idle"
    /\ outstanding = 0

FetchInit ==
    /\ updateTrigger = 0
    /\ refetchRequested = FALSE

Init ==
    /\ attendanceResponse = NoResponse
    /\ allAttendanceData = <<>>
    /\ displayedData = <<>>
    /\ currentWindowIndex = 0
    /\ statusFilter = "all"
    /\ sortOrder = "desc"
    /\ dirty = ProcessDeps \cup TriggerDeps \cup FiltersDeps
    /\ BulkInit
    /\ FetchInit
    /\ TaskInit
    /\ HeaderInit
    /\ ListInit

\* the query delivers a response (first load, date range change, refetch)
ReceiveResponse(response) ==
    /\ dirty = {}
    /\ attendanceResponse' = response
    /\ dirty' = {"attendanceResponse"}
    /\ refetchRequested' = FALSE
    /\ UNCHANGED <<allAttendanceData, displayedData, currentWindowIndex,
                   statusFilter, sortOrder, bulkVars, updateTrigger>>
    /\ UNCHANGED <<taskVars, headerVars, listVars>>

\* onChange of the status select
SetStatusFilter(filter) ==
    /\ dirty = {}
    /\ filter # statusFilter
    /\ statusFilter' = filter
    /\ dirty' = {"statusFilter"}
    /\ UNCHANGED <<attendanceResponse, allAttendanceData, displayedData,
                   currentWindowIndex, sortOrder, bulkVars, fetchVars>>
    /\ UNCHANGED <<taskVars, headerVars, listVars>>

\* onClick of the Date button
ToggleSortOrder ==
    /\ dirty = {}
    /\ sortOrder' = IF sortOrder = "desc" THEN "asc" ELSE "desc"
    /\ dirty' = {"sortOrder"}
    /\ UNCHANGED <<attendanceResponse, allAttendanceData, displayedData,
                   currentWindowIndex, statusFilter, bulkVars, fetchVars>>
    /\ UNCHANGED <<taskVars, headerVars, listVars>>

\* a window update that forgets setCurrentWindowIndex
updateCurrentWindow_KeepIndex(data, windowIndex, filter, order) ==
    /\ displayedData' = windowData(data, windowIndex, filter, order)
    /\ currentWindowIndex' = currentWindowIndex

\* updateCurrentWindow(data, windowIndex, filter, order)
updateCurrentWindow(data, windowIndex, filter, order) ==
    /\ displayedData' = windowData(data, windowIndex, filter, order)
    /\ currentWindowIndex' = windowIndex

dataAfterWindow_SortInPlace(data, filter, order) ==
    IF filter = "all" THEN sortRecords(data, order) ELSE data

\* the array passed to updateCurrentWindow after the call: filter and sort
\* work on the copy [...data]
dataAfterWindow(data, filter, order) == data

\* a page change that checks the lower bound only
handlePageChange_NoUpperBound(newPage) ==
    /\ dirty = {}
    /\ UNCHANGED <<attendanceResponse, statusFilter, sortOrder, dirty,
                   bulkVars, fetchVars>>
    /\ IF newPage >= 1
       THEN /\ updateCurrentWindow(allAttendanceData, newPage - 1, statusFilter, sortOrder)
            /\ allAttendanceData' =
                    dataAfterWindow(allAttendanceData, statusFilter, sortOrder)
       ELSE UNCHANGED <<allAttendanceData, displayedData, currentWindowIndex>>
    /\ UNCHANGED <<taskVars, headerVars, listVars>>

\* a page change that accepts the page after the last one
handlePageChange_PastLast(newPage) ==
    /\ dirty = {}
    /\ UNCHANGED <<attendanceResponse, statusFilter, sortOrder, dirty,
                   bulkVars, fetchVars>>
    /\ IF newPage >= 1 /\ newPage <= totalPages + 1
       THEN /\ updateCurrentWindow(allAttendanceData, newPage - 1, statusFilter, sortOrder)
            /\ allAttendanceData' =
                    dataAfterWindow(allAttendanceData, statusFilter, sortOrder)
       ELSE UNCHANGED <<allAttendanceData, displayedData, currentWindowIndex>>
    /\ UNCHANGED <<taskVars, headerVars, listVars>>

handlePageChange(newPage) ==
    /\ dirty = {}
    /\ UNCHANGED <<attendanceResponse, statusFilter, sortOrder, dirty,
                   bulkVars, fetchVars>>
    /\ IF newPage >= 1 /\ newPage <= totalPages
       THEN /\ updateCurrentWindow(allAttendanceData, newPage - 1, statusFilter, sortOrder)
            /\ allAttendanceData' =
                    dataAfterWindow(allAttendanceData, statusFilter, sortOrder)
       ELSE UNCHANGED <<allAttendanceData, displayedData, currentWindowIndex>>
    /\ UNCHANGED <<taskVars, headerVars, listVars>>

\* a trigger effect without dependencies: it runs after every commit
refetchOnTrigger_NoDeps == dirty # {} /\ updateTrigger > 0

\* useEffect(() => { if (updateTrigger > 0) refetchAttendance() }, [updateTrigger, ...])
refetchOnTrigger == dirty \cap TriggerDeps # {} /\ updateTrigger > 0

\* the effects of one commit, run in the order they are declared with the
\* values of that render: process the response, refetch on the trigger, then
\* re-window on filter change
FlushEffects ==
    /\ dirty # {}
    /\ LET processOk == /\ dirty \cap ProcessDeps # {}
                        /\ attendanceResponse.success
                        /\ attendanceResponse.data
           processed == processedRecords(attendanceResponse.records)
           filtersOk == /\ dirty \cap FiltersDeps # {}
                        /\ Len(allAttendanceData) > 0
       IN  /\ allAttendanceData' =
                   IF processOk THEN processed
                   ELSE IF filtersOk
                   THEN dataAfterWindow(allAttendanceData, statusFilter, sortOrder)
                   ELSE allAttendanceData
           /\ refetchRequested' = IF refetchOnTrigger THEN TRUE ELSE refetchRequested
           /\ IF filtersOk
              THEN updateCurrentWindow(allAttendanceData, 0, statusFilter, sortOrder)
              ELSE IF processOk
              THEN updateCurrentWindow(processed, 0, statusFilter, sortOrder)
              ELSE UNCHANGED <<displayedData, currentWindowIndex>>
           /\ dirty' = IF processOk THEN {"allAttendanceData"} ELSE {}
    /\ UNCHANGED <<attendanceResponse, statusFilter, sortOrder, bulkVars,
                   updateTrigger>>
    /\ UNCHANGED <<taskVars, headerVars, listVars>>

Next ==
    \/ \E response \in Responses : ReceiveResponse(response)
    \/ \E filter \in FilterOptions : SetStatusFilter(filter)
    \/ ToggleSortOrder
    \/ \E newPage \in 0..(MaxWindow + 1) : handlePageChange(newPage)
    \/ FlushEffects

Spec == Init /\ [][Next]_vars

(* Status resolution of every shape of raw record *)

InitResolve ==
    /\ attendanceResponse \in { Success(<<record>>) : record \in AllRawRecords }
    /\ allAttendanceData = <<>>
    /\ displayedData = <<>>
    /\ currentWindowIndex = 0
    /\ statusFilter = "all"
    /\ sortOrder = "desc"
    /\ dirty = ProcessDeps \cup TriggerDeps \cup FiltersDeps
    /\ BulkInit
    /\ FetchInit
    /\ TaskInit
    /\ HeaderInit
    /\ ListInit

NextResolve == FlushEffects

SpecResolve == InitResolve /\ [][NextResolve]_vars

(* The task reports page *)

SpecTasks == Init /\ [][NextTasks]_vars

(* The list of task reports *)

SpecReports == Init /\ [][NextReports]_vars

(* The header under every combination of its inputs *)

InitHeader ==
    /\ attendanceResponse = NoResponse
    /\ allAttendanceData = <<>>
    /\ displayedData = <<>>
    /\ currentWindowIndex = 0
    /\ statusFilter = "all"
    /\ sortOrder = "desc"
    /\ dirty = ProcessDeps \cup TriggerDeps \cup FiltersDeps
    /\ BulkInit
    /\ FetchInit
    /\ TaskInit
    /\ headerProps \in HeaderInputs
    /\ called = "none"
    /\ ListInit

SpecHeader == InitHeader /\ [][NextHeader]_vars

(* Locations of every shape *)

InitLocation ==
    /\ attendanceResponse \in
           { Success(<<WithLocation(RawRecord(1, 0, "09:12", "present", {}, Undefined),
                                    location)>>) : location \in Locations }
    /\ allAttendanceData = <<>>
    /\ displayedData = <<>>
    /\ currentWindowIndex = 0
    /\ statusFilter = "all"
    /\ sortOrder = "desc"
    /\ dirty = ProcessDeps \cup TriggerDeps \cup FiltersDeps
    /\ BulkInit
    /\ FetchInit
    /\ TaskInit
    /\ HeaderInit
    /\ ListInit

NextLocation == FlushEffects

SpecLocation == InitLocation /\ [][NextLocation]_vars

(* updateCurrentWindow applied to any window index *)

InitSelect ==
    /\ attendanceResponse \in { Success(d) : d \in Datasets \cup SmallLists }
    /\ allAttendanceData = processedRecords(attendanceResponse.records)
    /\ statusFilter \in FilterOptions
    /\ sortOrder \in {"asc", "desc"}
    /\ currentWindowIndex = 0
    /\ displayedData = windowData(allAttendanceData, 0, statusFilter, sortOrder)
    /\ dirty = {}
    /\ BulkInit
    /\ FetchInit
    /\ TaskInit
    /\ HeaderInit
    /\ ListInit

SelectWindow(windowIndex) ==
    /\ updateCurrentWindow(allAttendanceData, windowIndex, statusFilter, sortOrder)
    /\ allAttendanceData' = dataAfterWindow(allAttendanceData, statusFilter, sortOrder)
    /\ UNCHANGED <<attendanceResponse, statusFilter, sortOrder, dirty,
                   bulkVars, fetchVars>>
    /\ UNCHANGED <<taskVars, headerVars, listVars>>

NextSelect == \E windowIndex \in 0..MaxWindow : SelectWindow(windowIndex)

SpecSelect == InitSelect /\ [][NextSelect]_vars

(* Selection and bulk update *)

PagerFilters == {"all", "present"}

\* if (!employeeId) return <div>No employee selected.</div>
tableRendered == employeeId # Undefined

\* a toggle that keeps the selection
ToggleBulkSelect_KeepSelection ==
    /\ dirty = {}
    /\ showBulkActions' = ~showBulkActions
    /\ UNCHANGED <<viewVars, selectedRecords, bulkStatus, employeeId, requests, batch,
                   outstanding, fetchVars>>
    /\ UNCHANGED <<taskVars, headerVars, listVars>>

\* onClick of Bulk Select / Cancel Bulk
ToggleBulkSelect ==
    /\ dirty = {}
    /\ showBulkActions' = ~showBulkActions
    /\ selectedRecords' = {}
    /\ UNCHANGED <<viewVars, bulkStatus, employeeId, requests, batch, outstanding,
                   fetchVars>>
    /\ UNCHANGED <<taskVars, headerVars, listVars>>

\* onChange of the checkbox of row recordIndex (rendered in bulk mode)
handleSelectRecord(recordIndex, isSelected) ==
    /\ dirty = {}
    /\ showBulkActions
    /\ recordIndex < Len(displayedData)
    /\ isSelected = (recordIndex \notin selectedRecords)
    /\ selectedRecords' = IF isSelected
                          THEN selectedRecords \cup {recordIndex}
                          ELSE selectedRecords \ {recordIndex}
    /\ UNCHANGED <<viewVars, bulkStatus, showBulkActions, employeeId, requests, batch,
                   outstanding, fetchVars>>
    /\ UNCHANGED <<taskVars, headerVars, listVars>>

\* onChange of the checkbox of the table header (rendered in bulk mode)
handleSelectAll(isSelected) ==
    /\ dirty = {}
    /\ showBulkActions
    /\ isSelected = ~(/\ Cardinality(selectedRecords) = Len(displayedData)
                      /\ Len(displayedData) > 0)
    /\ selectedRecords' = IF isSelected
                          THEN { i - 1 : i \in 1..Len(displayedData) }
                          ELSE {}
    /\ UNCHANGED <<viewVars, bulkStatus, showBulkActions, employeeId, requests, batch,
                   outstanding, fetchVars>>
    /\ UNCHANGED <<taskVars, headerVars, listVars>>

\* onClick of Clear Selection (in the bar shown for a non-empty selection)
ClearSelection ==
    /\ dirty = {}
    /\ selectedRecords # {}
    /\ selectedRecords' = {}
    /\ UNCHANGED <<viewVars, bulkStatus, showBulkActions, employeeId, requests, batch,
                   outstanding, fetchVars>>
    /\ UNCHANGED <<taskVars, headerVars, listVars>>

BulkStatuses == {"present", "absent", "half-day"}

\* onChange of the status select of the bar
SetBulkStatus(status) ==
    /\ dirty = {}
    /\ selectedRecords # {}
    /\ status # bulkStatus
    /\ bulkStatus' = status
    /\ UNCHANGED <<viewVars, selectedRecords, showBulkActions, employeeId, requests,
                   batch, outstanding, fetchVars>>
    /\ UNCHANGED <<taskVars, headerVars, listVars>>

\* formatDateLocal(record.date): the day the table shows for the record, the
\* day of the instant in IST (+05:30)
formatDateLocal(date) == (date + 330) \div 1440

\* new Date(record.date).toISOString().split('T')[0]: the day of the instant in UTC
baseDate(date) == date \div 1440

\* `${baseDate}T<time>`
timeOn(day, time) == [day |-> day, time |-> time]

\* updateData of the request for a record
updateData(record) ==
    [status |-> bulkStatus,
     employeeId |-> employeeId,
     date |-> record.date,
     checkIn |-> IF bulkStatus \in {"present", "half-day"}
                 THEN timeOn(baseDate(record.date), "09:30:00")
                 ELSE Null,
     checkOut |-> IF bulkStatus = "present" THEN timeOn(baseDate(record.date), "17:30:00")
                  ELSE IF bulkStatus = "half-day"
                  THEN timeOn(baseDate(record.date), "13:30:00")
                  ELSE Null]

\* record._id || 'new' (ids are strings)
recordId(record) == IF record.id # 0 THEN ToString(record.id) ELSE "new"

\* the selected indexes displayedData has a record at
validSelected == { index \in selectedRecords : index < Len(displayedData) }

\* the updates handed to mutate, by selected index; displayedData[index] is
\* undefined for an index past the window, the callback of that index throws
\* before it reaches mutate
mutations ==
    [index \in validSelected |->
        [recordId |-> recordId(displayedData[index + 1]),
         updateData |-> updateData(displayedData[index + 1])]]

\* a handler that resets the selection whatever the outcome
afterBulkFailure_Reset ==
    /\ batch' = "failed"
    /\ selectedRecords' = {}
    /\ showBulkActions' = FALSE
    /\ UNCHANGED <<bulkStatus, employeeId, fetchVars>>

\* catch: console.error, alert
afterBulkFailure ==
    /\ batch' = "failed"
    /\ UNCHANGED <<selectedRecords, bulkStatus, showBulkActions, employeeId, fetchVars>>

\* after await Promise.all: reset the selection, leave bulk mode, refetch
afterBulkSuccess ==
    /\ batch' = "idle"
    /\ selectedRecords' = {}
    /\ showBulkActions' = FALSE
    /\ refetchRequested' = TRUE
    /\ UNCHANGED <<bulkStatus, employeeId, updateTrigger>>

\* onClick of Update Selected (disabled while a mutation is pending)
handleBulkStatusUpdate ==
    /\ dirty = {}
    /\ outstanding = 0
    /\ IF selectedRecords = {} \/ employeeId = Undefined
       THEN UNCHANGED <<bulkVars, fetchVars>>
       ELSE /\ requests' = mutations
            /\ outstanding' = Cardinality(validSelected)
            /\ IF validSelected # selectedRecords
               THEN afterBulkFailure
               ELSE /\ batch' = "pending"
                    /\ UNCHANGED <<selectedRecords, bulkStatus, showBulkActions,
                                   employeeId, fetchVars>>
    /\ UNCHANGED viewVars
    /\ UNCHANGED <<taskVars, headerVars, listVars>>

\* the mutation answers one request: onSuccess (resolve) or onError (reject);
\* Promise.all rejects with the first rejection and resolves with the last
\* resolution, answers to a batch already rejected are ignored
RequestSettles(ok) ==
    /\ outstanding > 0
    /\ outstanding' = outstanding - 1
    /\ requests' = IF outstanding = 1 THEN <<>> ELSE requests
    /\ IF batch # "pending"
       THEN UNCHANGED <<selectedRecords, bulkStatus, showBulkActions, employeeId, batch,
                        fetchVars>>
       ELSE IF ~ok
       THEN afterBulkFailure
       ELSE IF outstanding = 1
       THEN afterBulkSuccess
       ELSE UNCHANGED <<selectedRecords, bulkStatus, showBulkActions, employeeId, batch,
                        fetchVars>>
    /\ UNCHANGED viewVars
    /\ UNCHANGED <<taskVars, headerVars, listVars>>

\* the user closes the alert
DismissAlert ==
    /\ batch = "failed"
    /\ batch' = "idle"
    /\ UNCHANGED <<viewVars, selectedRecords, bulkStatus, showBulkActions, employeeId,
                   requests, outstanding, fetchVars>>
    /\ UNCHANGED <<taskVars, headerVars, listVars>>

\* the parent changes the updateTrigger prop
SetUpdateTrigger(value) ==
    /\ dirty = {}
    /\ value # updateTrigger
    /\ updateTrigger' = value
    /\ dirty' = {"updateTrigger"}
    /\ UNCHANGED <<attendanceResponse, allAttendanceData, displayedData,
                   currentWindowIndex, statusFilter, sortOrder, bulkVars,
                   refetchRequested>>
    /\ UNCHANGED <<taskVars, headerVars, listVars>>

(* The whole table over record lists of two pages *)

TableLengths == {0, recordsPerPage + 1}

TableResponses == { Success(Dataset(n, k)) : n \in TableLengths, k \in 0..MaxSeed }

InitTable ==
    /\ attendanceResponse = NoResponse
    /\ allAttendanceData = <<>>
    /\ displayedData = <<>>
    /\ currentWindowIndex = 0
    /\ statusFilter = "all"
    /\ sortOrder = "desc"
    /\ dirty = ProcessDeps \cup TriggerDeps \cup FiltersDeps
    /\ selectedRecords = {}
    /\ bulkStatus = "present"
    /\ showBulkActions = FALSE
    /\ employeeId \in {Undefined, "E1"}
    /\ requests = <<>>
    /\ batch = "idle"
    /\ outstanding = 0
    /\ updateTrigger \in 0..MaxTrigger
    /\ refetchRequested = FALSE
    /\ TaskInit
    /\ HeaderInit
    /\ ListInit

\* no batch in flight and no alert open: the alert is modal, and the batch is
\* answered before the next event
Idle == batch = "idle" /\ outstanding = 0

\* a user event on the rendered table
UserEvent == Idle /\ tableRendered

NextTable ==
    \/ FlushEffects
    \/ \E ok \in BOOLEAN : RequestSettles(ok)
    \/ DismissAlert
    \/ Idle /\ \E response \in TableResponses : ReceiveResponse(response)
    \/ Idle /\ \E value \in 0..MaxTrigger : SetUpdateTrigger(value)
    \/ Idle /\ handleBulkStatusUpdate
    \/ UserEvent /\ \E filter \in PagerFilters : SetStatusFilter(filter)
    \/ UserEvent /\ ToggleSortOrder
    \/ UserEvent /\ \E newPage \in offeredPages : handlePageChange(newPage)
    \/ UserEvent /\ ToggleBulkSelect
    \/ UserEvent /\ \E recordIndex \in 0..(MaxTick - 1), isSelected \in BOOLEAN :
                        handleSelectRecord(recordIndex, isSelected)
    \/ UserEvent /\ \E isSelected \in BOOLEAN : handleSelectAll(isSelected)
    \/ UserEvent /\ ClearSelection
    \/ UserEvent /\ \E status \in BulkStatuses : SetBulkStatus(status)

SpecTable == InitTable /\ [][NextTable]_vars

(* The pager over long record lists *)

PagerLengths == { recordsPerPage * p + 1 : p \in 0..(MaxPages - 1) }

InitPager ==
    /\ attendanceResponse \in { Success(Dataset(n, k)) : n \in PagerLengths, k \in 0..MaxSeed }
    /\ allAttendanceData = processedRecords(attendanceResponse.records)
    /\ statusFilter = "all"
    /\ sortOrder = "desc"
    /\ currentWindowIndex = 0
    /\ displayedData = windowData(allAttendanceData, 0, statusFilter, sortOrder)
    /\ dirty = {}
    /\ BulkInit
    /\ FetchInit
    /\ TaskInit
    /\ HeaderInit
    /\ ListInit

NextPager ==
    \/ \E newPage \in 0..(MaxPages + 1) : handlePageChange(newPage)
    \/ \E filter \in PagerFilters : SetStatusFilter(filter)
    \/ ToggleSortOrder
    \/ FlushEffects

SpecPager == InitPager /\ [][NextPager]_vars

----------------------------------------------------------------------------
(* Properties of the status resolution (checked under SpecResolve) *)

\* the raw record the i-th processed record was made from
Raw(i) == attendanceResponse.records[i]

Processed == 1..Len(allAttendanceData)

StatusOrAbsent(record) == IF record.status = Undefined THEN "absent" ELSE record.status

\* C1: a record with a checkIn resolves to the backend status ("absent" when the
\* status is missing) whatever its isLeave, isHoliday and isWeekend flags are
C1_CheckInKeepsStatus ==
    \A i \in Processed :
        Raw(i).checkIn # Undefined => allAttendanceData[i].status = StatusOrAbsent(Raw(i))

C1_Witness ==
    \E i \in Processed :
        /\ Raw(i).checkIn # Undefined
        /\ Raw(i).status = "present"
        /\ Raw(i).flags = FlagNames
        /\ allAttendanceData[i].status = "present"

\* C2 as stated: without a checkIn, isLeave gives "leave"; otherwise isHoliday
\* gives "holiday"; otherwise isWeekend gives "weekend", for every record
C2_FlagPrecedenceAlone ==
    \A i \in Processed :
        Raw(i).checkIn = Undefined =>
            /\ Flag(Raw(i), "isLeave") => allAttendanceData[i].status = "leave"
            /\ (~Flag(Raw(i), "isLeave") /\ Flag(Raw(i), "isHoliday"))
                   => allAttendanceData[i].status = "holiday"
            /\ (~Flag(Raw(i), "isLeave") /\ ~Flag(Raw(i), "isHoliday")
                    /\ Flag(Raw(i), "isWeekend"))
                   => allAttendanceData[i].status = "weekend"

\* C2 amended: without a checkIn, isLeave gives "leave" whatever the other flags
\* are; otherwise, when the backend status is not "leave", isHoliday gives
\* "holiday" whatever isWeekend is, and otherwise isWeekend gives "weekend"
C2_FlagPrecedence ==
    \A i \in Processed :
        Raw(i).checkIn = Undefined =>
            /\ Flag(Raw(i), "isLeave") => allAttendanceData[i].status = "leave"
            /\ (~Flag(Raw(i), "isLeave") /\ Raw(i).status # "leave"
                    /\ Flag(Raw(i), "isHoliday"))
                   => allAttendanceData[i].status = "holiday"
            /\ (~Flag(Raw(i), "isLeave") /\ Raw(i).status # "leave"
                    /\ ~Flag(Raw(i), "isHoliday") /\ Flag(Raw(i), "isWeekend"))
                   => allAttendanceData[i].status = "weekend"

C2_Witness ==
    \E i \in Processed :
        /\ Raw(i).checkIn = Undefined
        /\ Raw(i).flags = {"isHoliday", "isWeekend"}
        /\ Raw(i).status = "absent"
        /\ allAttendanceData[i].status = "holiday"

\* C3: without a checkIn, with none of the three flags and a status other than
\* "leave", the record resolves to the backend status, "absent" when it is missing
C3_FallThrough ==
    \A i \in Processed :
        (/\ Raw(i).checkIn = Undefined
         /\ Raw(i).flags \cap FlagNames = {}
         /\ Raw(i).status # "leave")
            => allAttendanceData[i].status = StatusOrAbsent(Raw(i))

C3_Witness ==
    \E i \in Processed :
        /\ Raw(i).checkIn = Undefined
        /\ Raw(i).flags = NoFlags
        /\ Raw(i).status = "half-day"
        /\ allAttendanceData[i].status = "half-day"

\* C4: without a checkIn a backend status "leave" resolves to "leave", also when
\* isLeave is unset and isHoliday or isWeekend are set
C4_LeaveStatusTriggers ==
    \A i \in Processed :
        Raw(i).checkIn = Undefined /\ Raw(i).status = "leave"
            => allAttendanceData[i].status = "leave"

C4_Witness ==
    \E i \in Processed :
        /\ Raw(i).checkIn = Undefined
        /\ Raw(i).status = "leave"
        /\ Raw(i).flags = {"isHoliday", "isWeekend"}
        /\ allAttendanceData[i].status = "leave"

\* C5 as stated: the title is the record's own when supplied, "Holiday" exactly
\* when none is supplied and the resolved status is "holiday", and absent otherwise
C5_TitleByFinalStatus ==
    \A i \in Processed :
        allAttendanceData[i].holidayTitle =
            IF Raw(i).holidayTitle # Undefined THEN Raw(i).holidayTitle
            ELSE IF allAttendanceData[i].status = "holiday" THEN "Holiday"
            ELSE Undefined

\* C5 amended: the title is the record's own when supplied, "Holiday" exactly
\* when none is supplied and the record is flagged isHoliday (whatever its
\* resolved status), and absent otherwise
C5_TitleByFlag ==
    \A i \in Processed :
        /\ Raw(i).holidayTitle # Undefined
               => allAttendanceData[i].holidayTitle = Raw(i).holidayTitle
        /\ Raw(i).holidayTitle = Undefined
               => /\ allAttendanceData[i].holidayTitle \in {"Holiday", Undefined}
                  /\ (allAttendanceData[i].holidayTitle = "Holiday")
                         <=> Flag(Raw(i), "isHoliday")

C5_Witness ==
    \E i \in Processed :
        /\ Raw(i).holidayTitle = Undefined
        /\ Raw(i).checkIn # Undefined
        /\ Flag(Raw(i), "isHoliday")
        /\ allAttendanceData[i].status = "present"
        /\ allAttendanceData[i].holidayTitle = "Holiday"

----------------------------------------------------------------------------
(* Properties of the filter, the sort and the window *)

Max(a, b) == IF a >= b THEN a ELSE b

\* the positions of the records of allAttendanceData whose status is filter
Kept(filter) == { i \in 1..Len(allAttendanceData) : allAttendanceData[i].status = filter }

\* the j-th smallest element of a set of positions
Nth(positions, j) == CHOOSE i \in positions : Cardinality({ x \in positions : x <= i }) = j

\* the filtered and sorted sequence the window is cut from
Sorted == sortedRecords(allAttendanceData, statusFilter, sortOrder)

\* the records of a sequence that bear a given date, in their order
DateGroup(records, date) == SelectSeq(records, LAMBDA record : record.date = date)

\* how often a record occurs in a sequence
Occurrences(records, record) == Cardinality({ i \in 1..Len(records) : records[i] = record })

\* C6: filter "all" keeps every record; any other filter keeps exactly the
\* records whose resolved status equals it, in their order (a sub-sequence of the
\* input); the filtered length counts them, and once the effects have run no
\* displayed record has a status other than the filter
C6_FilterExact ==
    /\ filterByStatus(allAttendanceData, "all") = allAttendanceData
    /\ \A filter \in FilterOptions \ {"all"} :
           LET kept == filterByStatus(allAttendanceData, filter)
           IN  /\ Len(kept) = Cardinality(Kept(filter))
               /\ \A j \in 1..Len(kept) : kept[j] = allAttendanceData[Nth(Kept(filter), j)]
    /\ getFilteredDataLength =
           IF statusFilter = "all" THEN Len(allAttendanceData)
           ELSE Cardinality(Kept(statusFilter))
    /\ (dirty = {} /\ statusFilter # "all")
           => \A i \in 1..Len(displayedData) : displayedData[i].status = statusFilter

C6_Witness ==
    /\ dirty = {}
    /\ statusFilter = "present"
    /\ Len(displayedData) > 0
    /\ Len(displayedData) = Cardinality(Kept("present"))
    /\ \E i \in 1..Len(allAttendanceData) : allAttendanceData[i].status = "absent"

\* the filtered records are a rearrangement of the sorted ones, and every record
\* precedes the records of strictly earlier (desc) or strictly later (asc) date
C7_Ordered ==
    \A filtered \in {filterByStatus(allAttendanceData, statusFilter)} :
    \A sorted \in {sortRecords(filtered, sortOrder)} :
        /\ sortOrder \in {"asc", "desc"}
        /\ Len(sorted) = Len(filtered)
        /\ \A i \in 1..Len(filtered) :
               Occurrences(sorted, filtered[i]) = Occurrences(filtered, filtered[i])
        /\ \A i, j \in 1..Len(sorted) :
               /\ (sortOrder = "desc" /\ sorted[j].date < sorted[i].date) => i < j
               /\ (sortOrder = "asc" /\ sorted[j].date > sorted[i].date) => i < j
        /\ dirty = {} =>
               \A i, j \in 1..Len(displayedData) :
                   i < j => IF sortOrder = "desc"
                            THEN displayedData[i].date >= displayedData[j].date
                            ELSE displayedData[i].date <= displayedData[j].date

\* C7: the filtered records are ordered by date only (desc: before all records
\* of strictly earlier date, asc: of strictly later date); the view starts with
\* order desc, and every change of the order flips it between desc and asc
C7_SortByDate ==
    /\ sortOrder = "desc"
    /\ []C7_Ordered
    /\ [][sortOrder' # sortOrder =>
             sortOrder' = (IF sortOrder = "desc" THEN "asc" ELSE "desc")]_vars
    /\ [][("sortOrder" \in dirty' /\ dirty = {}) => sortOrder' # sortOrder]_vars

C7_Witness ==
    /\ dirty = {}
    /\ sortOrder = "asc"
    /\ Len(displayedData) = recordsPerPage
    /\ displayedData[1].date < displayedData[recordsPerPage].date

\* C8: the sort is stable: under either order the records of one date keep the
\* relative order of the fetched record set, also when the sorted sequence is
\* sorted again the other way and back
C8_SortStable ==
    LET filtered == filterByStatus(allAttendanceData, statusFilter)
        desc == sortRecords(filtered, "desc")
        asc == sortRecords(filtered, "asc")
        back == sortRecords(sortRecords(desc, "asc"), "desc")
    IN  \A date \in { filtered[i].date : i \in 1..Len(filtered) } :
            /\ DateGroup(desc, date) = DateGroup(filtered, date)
            /\ DateGroup(asc, date) = DateGroup(filtered, date)
            /\ DateGroup(back, date) = DateGroup(filtered, date)
            /\ DateGroup(displayedData, date) =
                   DateGroup(slice(Sorted, currentWindowIndex * recordsPerPage,
                                   currentWindowIndex * recordsPerPage + recordsPerPage), date)

C8_Witness ==
    /\ currentWindowIndex = 1
    /\ Len(displayedData) >= 3
    /\ sortOrder = "asc"
    /\ displayedData[1].date = displayedData[2].date
    /\ displayedData[1] # displayedData[2]
    /\ displayedData[2].date < displayedData[3].date
    /\ \E i, j \in 1..Len(allAttendanceData) :
           /\ i < j
           /\ allAttendanceData[i] = displayedData[1]
           /\ allAttendanceData[j] = displayedData[2]
           /\ \E k \in 1..Len(allAttendanceData) :
                  i < k /\ k < j /\ allAttendanceData[k].date # allAttendanceData[i].date

\* C9: the displayed window holds exactly the elements of the filtered and sorted
\* sequence at positions [w*p, w*p+p) clipped to its length; a window index at or
\* beyond the end gives an empty window (15 records, p = 7: 7, 7, 1, then none)
C9_WindowSlice ==
    LET w == currentWindowIndex
        p == recordsPerPage
    IN  /\ Len(displayedData) = Max(0, Min(p, Len(Sorted) - w * p))
        /\ \A i \in 1..Len(displayedData) : displayedData[i] = Sorted[w * p + i]
        /\ w * p >= Len(Sorted) => displayedData = <<>>
        /\ Len(Sorted) = 15 =>
               Len(displayedData) = CASE w = 0 -> 7 [] w = 1 -> 7 [] w = 2 -> 1 [] OTHER -> 0

C9_Witness ==
    /\ Len(Sorted) = 15
    /\ currentWindowIndex = 3
    /\ displayedData = <<>>

\* C10 as stated, of a loaded record set: totalPages is ceil(filteredLength /
\* pageSize) for a positive filtered length and 1 when no record matches the filter
C10_TotalPagesAtLeastOne ==
    LET n == getFilteredDataLength
    IN  (dirty = {} /\ Len(allAttendanceData) > 0) =>
            /\ n > 0 => /\ totalPages * recordsPerPage >= n
                        /\ (totalPages - 1) * recordsPerPage < n
            /\ n = 0 => totalPages = 1

\* C10 amended: totalPages is ceil(filteredLength / pageSize) for every filtered
\* length, which is 0 (not 1) when no record matches the filter
C10_TotalPagesCeil ==
    LET n == getFilteredDataLength
    IN  /\ totalPages * recordsPerPage >= n
        /\ (totalPages - 1) * recordsPerPage < n
        /\ n = 0 <=> totalPages = 0

C10_Witness ==
    /\ dirty = {}
    /\ Len(allAttendanceData) > 0
    /\ statusFilter = "weekend"
    /\ getFilteredDataLength = 0
    /\ totalPages = 0

----------------------------------------------------------------------------
(* Properties of paging (checked under Spec) *)

\* C11: a page change to a page below 1 or above totalPages changes neither the
\* window index nor the displayed window and requests no fetch; a page change to
\* a page in 1..totalPages makes that page the current page
C11_PageChangeGuard ==
    [][\A newPage \in 0..(MaxWindow + 1) :
          handlePageChange(newPage) =>
              IF newPage < 1 \/ newPage > totalPages
              THEN UNCHANGED <<currentWindowIndex, displayedData,
                               attendanceResponse, refetchRequested>>
              ELSE /\ currentWindowIndex' + 1 = newPage
                   /\ UNCHANGED refetchRequested]_vars

C11_Witness ==
    /\ dirty = {}
    /\ totalPages = 3
    /\ currentPage = 3
    /\ Len(displayedData) = 1

\* the view between a filter change and the effects it schedules (the same
\* event; nothing is clickable in between)
Settled == "statusFilter" \notin dirty

\* C12 as stated, in every state: every page button is a page of 1..totalPages,
\* the current page is among the buttons, Previous is not offered on page 1 and
\* Next is not offered on the last page
C12_PagerAlways ==
    Settled =>
        /\ pageButtons \subseteq 1..totalPages
        /\ currentPage \in pageButtons
        /\ currentPage = 1 => currentPage - 1 \notin offeredPages \ pageButtons
        /\ currentPage = totalPages => currentPage + 1 \notin offeredPages

\* C12 amended: the controls are rendered exactly when there is more than one
\* page (with one page or none there is no button at all, the current page
\* included); when rendered, every page button is a page of 1..totalPages, the
\* current page is among them, Previous is disabled on page 1 and Next on the
\* last page, so every page the controls offer is in 1..totalPages
C12_PagerBounds ==
    Settled =>
        /\ paginationRendered <=> totalPages > 1
        /\ ~paginationRendered => pageButtons = {} /\ offeredPages = {}
        /\ paginationRendered =>
               /\ pageButtons \subseteq 1..totalPages
               /\ currentPage \in pageButtons
               /\ currentPage = 1 => previousDisabled
               /\ currentPage = totalPages => nextDisabled
               /\ offeredPages \subseteq 1..totalPages

C12_Witness ==
    /\ dirty = {}
    /\ totalPages = 6
    /\ currentPage = 6
    /\ pageButtons = {4, 5, 6}
    /\ nextDisabled

----------------------------------------------------------------------------
(* Selecting from a selection (checked under SpecSelect) *)

\* C13 as stated: selecting again from the displayed window, with the same
\* filter, order, window index and page size, gives the displayed window
C13_SelectIdempotent ==
    windowData(displayedData, currentWindowIndex, statusFilter, sortOrder) = displayedData

\* C13 amended: filtering and sorting again changes nothing, and selecting again
\* gives the same window for window index 0; for a window index of 1 or more the
\* second selection is empty, whatever the first one held
C13_SelectIdempotentFirstWindow ==
    \A again \in {windowData(displayedData, currentWindowIndex, statusFilter, sortOrder)} :
        /\ sortedRecords(Sorted, statusFilter, sortOrder) = Sorted
        /\ filterByStatus(displayedData, statusFilter) = displayedData
        /\ currentWindowIndex = 0 => again = displayedData
        /\ currentWindowIndex >= 1 => again = <<>>

C13_Witness ==
    /\ currentWindowIndex = 1
    /\ sortOrder = "asc"
    /\ Len(allAttendanceData) = 15
    /\ Len(displayedData) = 7
    /\ windowData(displayedData, 0, statusFilter, sortOrder) = displayedData
    /\ windowData(displayedData, 1, statusFilter, sortOrder) = <<>>

----------------------------------------------------------------------------
(* Properties of the bulk update (checked under SpecTable) *)

C15_OneRequestPerSelected ==
    [][handleBulkStatusUpdate =>
          IF selectedRecords = {} \/ employeeId = Undefined
          THEN UNCHANGED vars
          ELSE /\ Cardinality(DOMAIN requests') = Cardinality(selectedRecords)
               /\ \A index \in selectedRecords :
                      /\ index \in DOMAIN requests'
                      /\ index < Len(displayedData)
                      /\ \A record \in {displayedData[index + 1]} :
                           \A request \in {requests'[index]} :
                             /\ request.recordId = IF record.id = 0 THEN "new"
                                                   ELSE ToString(record.id)
                             /\ request.updateData.status = bulkStatus
                             /\ request.updateData.employeeId = employeeId
                             /\ request.updateData.date = record.date]_vars

----------------------------------------------------------------------------
(* Fetching and the record array (checked under SpecTable) *)

\* C19: once a response has been received, a step that requests a refetch is
\* either the effect of a changed updateTrigger above 0 or the successful answer
\* to the last outstanding request of a pending batch; a filter change, a sort
\* toggle, a page change and the effects they schedule request none
C19_RefetchOnlyOnTriggerOrBulk ==
    [][/\ (attendanceResponse.success /\ ~refetchRequested /\ refetchRequested') =>
              \/ /\ "updateTrigger" \in dirty
                 /\ updateTrigger > 0
                 /\ FlushEffects
              \/ /\ batch = "pending"
                 /\ outstanding = 1
                 /\ RequestSettles(TRUE)
       /\ (/\ attendanceResponse.success
           /\ \/ statusFilter' # statusFilter
              \/ sortOrder' # sortOrder
              \/ currentWindowIndex' # currentWindowIndex
              \/ dirty \cap {"statusFilter", "sortOrder"} # {}) =>
              UNCHANGED <<refetchRequested, attendanceResponse>>]_vars

C19_Witness ==
    /\ attendanceResponse.success
    /\ dirty = {}
    /\ statusFilter = "present"
    /\ sortOrder = "asc"
    /\ updateTrigger > 0
    /\ ~refetchRequested

\* C20: allAttendanceData changes only in the step that processes a successful
\* response, and then to the processed records of that response; every other
\* step (filter, sort, window, page, selection, bulk update) leaves its records
\* and their order as they are
C20_ReplacedOnlyOnResponse ==
    [][allAttendanceData' # allAttendanceData =>
          /\ dirty \cap ProcessDeps # {}
          /\ attendanceResponse.success
          /\ attendanceResponse.data
          /\ FlushEffects
          /\ allAttendanceData' = processedRecords(attendanceResponse.records)]_vars

C20_Witness ==
    /\ attendanceResponse.success
    /\ Len(allAttendanceData) = recordsPerPage + 1
    /\ allAttendanceData = processedRecords(attendanceResponse.records)
    /\ sortRecords(allAttendanceData, sortOrder) # allAttendanceData
    /\ currentPage = 2
    /\ selectedRecords # {}
    /\ batch = "failed"

----------------------------------------------------------------------------
(* Locations (checked under SpecLocation) *)

\* a coordinate that is there and is a number: a number other than NaN, or a
\* string parseFloat reads a number from
numeric(c) == c.type \in {"number", "string"} /\ ~parseFloat(c).nan

\* C18: the location of a displayed record is available exactly when the record
\* came with a latitude and a longitude that are both present, numeric and not
\* NaN, whatever their values (0 included)
C18_LocationAvailable ==
    \A i \in 1..Len(displayedData) :
        hasValidLocation(displayedData[i]) <=>
            /\ Raw(i).location.present
            /\ numeric(Raw(i).location.latitude)
            /\ numeric(Raw(i).location.longitude)

----------------------------------------------------------------------------
(* Validation of the task list *)

\* the entries of a draft that hold a character other than a space
kept(draft) == { j \in 1..Len(draft) : \E c \in 1..Len(draft[j]) : draft[j][c] # " " }

\* text is entry without the spaces at its two ends
isTrimOf(text, entry) ==
    /\ text # <<>>
    /\ text[1] # " "
    /\ text[Len(text)] # " "
    /\ \E a \in 1..Len(entry) :
          /\ SubSeq(entry, a, a + Len(text) - 1) = text
          /\ \A c \in 1..Len(entry) : (c < a \/ c > a + Len(text) - 1) => entry[c] = " "

\* payload is the kept entries of the draft, trimmed, in the order of the draft
isPayloadOf(payload, draft) ==
    /\ Len(payload) = Cardinality(kept(draft))
    /\ \A i \in 1..Len(payload) : isTrimOf(payload[i], draft[Nth(kept(draft), i)])

\* the draft a call was made from
draftOf(kind) == IF kind = "submit" THEN submitTasks ELSE editTasks

\* C17: a task-report submission or edit whose task list is empty after trimming
\* each entry and dropping the blank ones is rejected with a validation message
\* and makes no call; and the tasks of any call made are non-empty, each trimmed
\* and non-blank, and are the kept entries of the draft in their original order.
C17_ValidatedTasks ==
    /\ [](taskCall.kind # "none" =>
             /\ taskCall.tasks # <<>>
             /\ isPayloadOf(taskCall.tasks, draftOf(taskCall.kind)))
    /\ [][(handleSubmitTasks /\ kept(submitTasks) = {}) =>
             (taskCall' = NoCall /\ toast' = "warning")]_vars
    /\ [][(\E report \in Reports : handleSaveEdit(report)) /\ kept(editTasks) = {} =>
             (taskCall' = NoCall /\ toast' = "warning")]_vars

C17_Witness ==
    /\ taskCall.kind = "submit"
    /\ submitTasks = << <<" ", "b", " ">>, <<" ">> >>
    /\ taskCall.tasks = << <<"b">> >>
    /\ toast = "warning"

----------------------------------------------------------------------------
(* The displayed window follows the view's state (checked under Spec) *)

\* C21: once the effects of the last event have run, the displayed rows are the
\* window at currentWindowIndex of the records of allAttendanceData that pass
\* statusFilter, in sortOrder: never a slice of an older filter, order, page or
\* record set
C21_WindowCurrent ==
    dirty = {} =>
        LET w == currentWindowIndex
            p == recordsPerPage
        IN  /\ Len(displayedData) = Max(0, Min(p, Len(Sorted) - w * p))
            /\ \A i \in 1..Len(displayedData) : displayedData[i] = Sorted[w * p + i]

C21_Witness ==
    /\ dirty = {}
    /\ statusFilter # "all"
    /\ sortOrder = "asc"
    /\ Len(allAttendanceData) = MaxRecords
    /\ Len(displayedData) > 2
    /\ Len(displayedData) = getFilteredDataLength

----------------------------------------------------------------------------
(* The selection and the displayed window (checked under SpecTable) *)

\* C22: once the effects of the last event have run, every index held in
\* selectedRecords is an index of a row of the displayed window
C22_SelectionInWindow ==
    dirty = {} => \A index \in selectedRecords : index < Len(displayedData)

\* the records the selection stands for: those of the rows at the selected
\* indexes, which a bulk update sends its requests for
selectedRows ==
    { <<recordId(displayedData[index + 1]), displayedData[index + 1].date>> :
        index \in validSelected }

\* the user ticks or unticks a checkbox, or the selection is reset
SelectionEvent ==
    \/ ToggleBulkSelect
    \/ \E recordIndex \in 0..(MaxTick - 1), isSelected \in BOOLEAN :
           handleSelectRecord(recordIndex, isSelected)
    \/ \E isSelected \in BOOLEAN : handleSelectAll(isSelected)
    \/ ClearSelection
    \/ \E ok \in BOOLEAN : RequestSettles(ok)

\* C23: the records a bulk update sends requests for are exactly the records of
\* the rows the user ticked: a press of Update Selected sends its requests for
\* the records the selection stands for, and between the ticking and the press
\* no page change, filter change, sort toggle or reload changes which records
\* a non-empty selection stands for
C23_RequestsForTicked ==
    /\ [][(handleBulkStatusUpdate /\ selectedRecords # {} /\ employeeId # Undefined) =>
             /\ validSelected = selectedRecords
             /\ { <<requests'[index].recordId, requests'[index].updateData.date>> :
                     index \in DOMAIN requests' } = selectedRows]_vars
    /\ [][(selectedRecords # {} /\ ~SelectionEvent) =>
             (selectedRows' = selectedRows /\ validSelected' = selectedRecords')]_vars

\* C24: a non-empty selection implies bulk mode; a toggle of bulk mode in either
\* direction empties the selection; a bulk update that ends well empties the
\* selection and leaves bulk mode in the same step
C24_SelectionInBulkMode ==
    /\ [](selectedRecords # {} => showBulkActions)
    /\ [][ToggleBulkSelect =>
             (showBulkActions' = ~showBulkActions /\ selectedRecords' = {})]_vars
    /\ [][(batch = "pending" /\ batch' = "idle") =>
             (selectedRecords' = {} /\ showBulkActions' = FALSE)]_vars
    /\ [][showBulkActions' # showBulkActions => selectedRecords' = {}]_vars

C24_Witness ==
    /\ showBulkActions
    /\ Cardinality(selectedRecords) = MaxTick
    /\ refetchRequested
    /\ batch = "idle"

----------------------------------------------------------------------------
(* The current page (checked under Spec) *)

\* C25: the effects run after a change of the status filter, after a change of
\* the sort order and after the delivery of a successful response leave the
\* table on its first page, whatever page was shown before
C25_ResetToFirstPage ==
    [][(/\ FlushEffects
        /\ \/ "statusFilter" \in dirty
           \/ "sortOrder" \in dirty
           \/ ("attendanceResponse" \in dirty /\ attendanceResponse.success
                   /\ attendanceResponse.data))
       => currentWindowIndex' = 0]_vars

C25_Witness ==
    /\ dirty = {"sortOrder"}
    /\ currentWindowIndex = 2
    /\ ~attendanceResponse.success

\* C26: between events the current page is within bounds: currentWindowIndex
\* is 0 when no record passes the filter and below ceil(filteredLength / 7)
\* otherwise, so that a non-empty filtered set never shows an empty window
C26_PageInBounds ==
    Settled =>
        /\ currentWindowIndex >= 0
        /\ getFilteredDataLength = 0 => currentWindowIndex = 0
        /\ getFilteredDataLength > 0 =>
               /\ currentWindowIndex * recordsPerPage < getFilteredDataLength
               /\ dirty = {} => displayedData # <<>>

C26_Witness ==
    /\ dirty = {}
    /\ sortOrder = "asc"
    /\ currentWindowIndex = 1
    /\ getFilteredDataLength = 2 * recordsPerPage
    /\ Len(displayedData) = recordsPerPage

----------------------------------------------------------------------------
(* The Check In and Check Out buttons (checked under SpecHeader) *)

checkInEnabled == ~checkInDisabled(headerProps)
checkOutEnabled == ~checkOutDisabled(headerProps)

\* C27 as stated, "nothing is loading" being none of checkInLoading,
\* checkOutLoading and locationLoading for either button: the two buttons are
\* never both enabled; Check In is enabled only when the employee is not checked
\* in, nothing is loading, the daily cycle is not complete and no WFH request is
\* pending; Check Out is enabled only when checked in, not loading and the cycle
\* not complete; with the cycle complete both are disabled
C27_ButtonsNothingLoading ==
    LET p == headerProps
        loading == p.checkInLoading \/ p.checkOutLoading \/ p.locationLoading
    IN  /\ ~(checkInEnabled /\ checkOutEnabled)
        /\ checkInEnabled => (/\ ~p.isCheckedIn /\ ~loading /\ ~p.dailyCycleComplete
                              /\ ~p.wfhRequestPending)
        /\ checkOutEnabled => (p.isCheckedIn /\ ~loading /\ ~p.dailyCycleComplete)
        /\ p.dailyCycleComplete => (~checkInEnabled /\ ~checkOutEnabled)

\* C27 amended: as above, each button looking at its own loading inputs only:
\* Check In is enabled exactly when not checked in, neither checkInLoading nor
\* locationLoading, the cycle not complete and no WFH request pending; Check Out
\* exactly when checked in, not checkOutLoading and the cycle not complete
C27_ButtonsOwnLoading ==
    LET p == headerProps
    IN  /\ ~(checkInEnabled /\ checkOutEnabled)
        /\ checkInEnabled <=> (/\ ~p.isCheckedIn /\ ~p.checkInLoading
                               /\ ~p.locationLoading /\ ~p.dailyCycleComplete
                               /\ ~p.wfhRequestPending)
        /\ checkOutEnabled <=> (p.isCheckedIn /\ ~p.checkOutLoading
                                /\ ~p.dailyCycleComplete)
        /\ p.dailyCycleComplete => (~checkInEnabled /\ ~checkOutEnabled)

C27_Witness ==
    /\ checkInEnabled
    /\ headerProps.checkOutLoading
    /\ called = "handleCheckIn"

----------------------------------------------------------------------------
(* The submission form of the task reports (checked under SpecTasks) *)

\* C28: the draft task list of the submission form always has at least one
\* entry: opening the form resets it to a single blank entry, adding appends one
\* blank entry, and removing an entry removes exactly that entry, or nothing
\* when only one entry remains
C28_DraftNeverEmpty ==
    /\ [](Len(submitTasks) >= 1)
    /\ [][handleOpenSubmitModal => submitTasks' = <<Blank>>]_vars
    /\ [][handleAddTask =>
             (/\ Len(submitTasks') = Len(submitTasks) + 1
              /\ SubSeq(submitTasks', 1, Len(submitTasks)) = submitTasks
              /\ submitTasks'[Len(submitTasks')] = Blank)]_vars
    /\ [][\A index \in 0..(MaxTasks - 1) :
             handleRemoveTask(index) =>
                 IF Len(submitTasks) = 1 THEN submitTasks' = submitTasks
                 ELSE /\ Len(submitTasks') = Len(submitTasks) - 1
                      /\ \A i \in 1..Len(submitTasks') :
                             submitTasks'[i] = submitTasks[IF i <= index THEN i ELSE i + 1]]_vars

C28_Witness ==
    /\ showSubmitModal
    /\ Len(submitTasks) = MaxTasks
    /\ submitTasks[1] # Blank
    /\ toast = "success"

\* the form and the edit mode with their drafts
drafts == <<showSubmitModal, submitTasks, submitDate, editingReport, editTasks>>

----------------------------------------------------------------------------
(* The pages of the task-report list (checked under SpecReports) *)

\* C30: the current page of the task-report list is always at least 1: a page
\* change to n makes n the current page when 1 <= n <= totalPages and changes
\* nothing otherwise, and every change or clearing of a bound of the date range
\* makes page 1 the current page
C30_ReportsPageAtLeastOne ==
    /\ [](reportsPage >= 1)
    /\ [][\A newPage \in 0..(MaxReportPages + 1) :
             reportsPageChange(newPage) =>
                 IF newPage >= 1 /\ newPage <= reportsTotalPages
                 THEN reportsPage' = newPage
                 ELSE UNCHANGED <<reportsPage, dateRange, taskReportsData>>]_vars
    /\ [][dateRange' # dateRange => reportsPage' = 1]_vars

C30_Witness ==
    /\ reportsPage = MaxReportPages
    /\ dateRange.startDate # ""
    /\ reportsTotalPages < reportsPage

====
